---- MODULE Spec2Model ----
(***************************************************************************)
(* A model of the executable cells of the ENAR tutorial notebooks:         *)
(*   - trapezoidal / trapezodial_fast (numerical integration),             *)
(*   - common_elements (generator over two sequences),                     *)
(*   - py_update / num_update / calc (Laplace relaxation on a grid),       *)
(*   - interval_bounds / last_period / death / exposure (survival data     *)
(*     restructured for the Poisson trick),                                *)
(*   - div (the debugging example),                                        *)
(*   - the Ebola import loop (column selection over the data files).       *)
(* Every group of cells has its own specification over the shared          *)
(* variables; the variables of the other groups stay at their idle value.  *)
(* Floating-point numbers are modelled by exact rationals <<num, den>>.    *)
(***************************************************************************)
EXTENDS Integers, Sequences, FiniteSets, TLC

VARIABLES
    \* trapezoidal(func, from_a, to_b, n_intervals), trapezodial_fast(a, b, n)
    func, from_a, to_b, n_intervals, trap_out, fast_out,
    \* list(common_elements(a, b))
    a, b, yielded,
    \* calc(N, Niter, func)
    N, Niter, update_func, u, iter, calc_pc,
    \* the survival-analysis cells
    time, event, interval_bounds, last_period, death, exposure, surv_pc,
    \* div(x, y)
    x, y, div_out,
    \* the Ebola import loop
    filenames, n_read, data, datasets, import_pc, import_err

trapVars   == <<func, from_a, to_b, n_intervals, trap_out, fast_out>>
commonVars == <<a, b, yielded>>
calcVars   == <<N, Niter, update_func, u, iter, calc_pc>>
survVars   == <<time, event, interval_bounds, last_period, death, exposure, surv_pc>>
divVars    == <<x, y, div_out>>
importVars == <<filenames, n_read, data, datasets, import_pc, import_err>>
vars       == <<trapVars, commonVars, calcVars, survVars, divVars, importVars>>

\* The value of a variable whose cell has not run (and of an unused group).
None == <<>>

TrapIdle   == /\ func = None /\ from_a = None /\ to_b = None
              /\ n_intervals = None /\ trap_out = None /\ fast_out = None
CommonIdle == a = None /\ b = None /\ yielded = None
CalcIdle   == /\ N = None /\ Niter = None /\ update_func = None
              /\ u = None /\ iter = None /\ calc_pc = None
SurvIdle   == /\ time = None /\ event = None /\ interval_bounds = None
              /\ last_period = None /\ death = None /\ exposure = None
              /\ surv_pc = None
DivIdle    == x = None /\ y = None /\ div_out = None
ImportIdle == /\ filenames = None /\ n_read = None /\ data = None
              /\ datasets = None /\ import_pc = None /\ import_err = None

----------------------------------------------------------------------------
(* Exact rational arithmetic, standing for Python's float arithmetic.      *)

Abs(n) == IF n < 0 THEN -n ELSE n

RECURSIVE GCD(_, _)
GCD(m, n) == IF n = 0 THEN m ELSE GCD(n, m % n)

\* The rational n/d (d # 0) in lowest terms with a positive denominator.
Rat(n, d) ==
    LET g == GCD(Abs(n), Abs(d))
        s == IF d < 0 THEN -1 ELSE 1
    IN  <<(s * n) \div g, (s * d) \div g>>

RInt(n) == <<n, 1>>

\* Sums and products are formed over reduced denominators, which keeps the
\* intermediate integers small.
RAdd(p, q) ==
    LET g == GCD(p[2], q[2])
    IN  Rat(p[1] * (q[2] \div g) + q[1] * (p[2] \div g), (p[2] \div g) * q[2])

RMul(p, q) ==
    LET g1 == GCD(Abs(p[1]), q[2])
        g2 == GCD(Abs(q[1]), p[2])
    IN  Rat((p[1] \div g1) * (q[1] \div g2), (p[2] \div g2) * (q[2] \div g1))

\* p / q for q # 0
RDiv(p, q) == RMul(p, IF q[1] < 0 THEN <<-q[2], -q[1]>> ELSE <<q[2], q[1]>>)

RHalf == Rat(1, 2)

----------------------------------------------------------------------------
(* Numerical integration.                                                  *)

MaxCoef      == 3
MaxArg       == 2
MaxIntervals == 3

\* A function argument is a polynomial c2*x**2 + c1*x + c0, held as <<c2, c1, c0>>.
Funcs == {<<c2, c1, c0>> : c2 \in 0..MaxCoef, c1 \in 0..MaxCoef, c0 \in 0..MaxCoef}

Apply(f, r) ==
    RAdd(RAdd(RMul(RInt(f[1]), RMul(r, r)), RMul(RInt(f[2]), r)), RInt(f[3]))

\* def some_polynomial_function(x): return 2 * x**2 + 3 * x + 1
some_polynomial_function == <<2, 3, 1>>

\* cdef inline double fast_polynomial(double x): return 2*x*x + 3*x + 1
fast_polynomial(r) ==
    RAdd(RAdd(RMul(RMul(RInt(2), r), r), RMul(RInt(3), r)), RInt(1))

\* sum(func(from_a + i*int_width) for i in range(n)), i = 0 .. n-1
RECURSIVE SumRange(_, _, _, _)
SumRange(f, fa, int_width, n) ==
    IF n = 0 THEN RInt(0)
    ELSE RAdd(SumRange(f, fa, int_width, n - 1),
              Apply(f, RAdd(RInt(fa), RMul(RInt(n - 1), int_width))))

trapezoidal(f, fa, tb, n) ==
    LET int_width == RDiv(RInt(tb - fa), RInt(n))
        sum_y     == SumRange(f, fa, int_width, n)
        sum_y2    == RAdd(sum_y, RMul(RHalf, RAdd(Apply(f, RInt(fa)), Apply(f, RInt(tb)))))
    IN  RMul(sum_y2, int_width)

\* The loop of trapezodial_fast: i-th pass does x += h; sumy += fast_polynomial(x).
\* Returns <<x, sumy>> after n passes.
RECURSIVE FastLoop(_, _, _)
FastLoop(fa, h, n) ==
    IF n = 0 THEN <<RInt(fa), RInt(0)>>
    ELSE LET prev == FastLoop(fa, h, n - 1)
             xn   == RAdd(prev[1], h)
         IN  <<xn, RAdd(prev[2], fast_polynomial(xn))>>

trapezodial_fast(fa, tb, n) ==
    LET h     == RDiv(RInt(tb - fa), RInt(n))
        sumy  == FastLoop(fa, h, n)[2]
        sumy2 == RAdd(sumy, RMul(RHalf, RAdd(fast_polynomial(RInt(fa)),
                                             fast_polynomial(RInt(tb)))))
    IN  RMul(sumy2, h)

InitTrap ==
    /\ func \in Funcs
    /\ from_a \in 0..MaxArg
    /\ to_b \in 0..MaxArg
    /\ n_intervals \in 1..MaxIntervals
    /\ trap_out = None
    /\ fast_out = None
    /\ CommonIdle /\ CalcIdle /\ SurvIdle /\ DivIdle /\ ImportIdle

\* The cell  trapezoidal(func, from_a, to_b, n_intervals)
CallTrapezoidal ==
    /\ trap_out = None
    /\ trap_out' = <<trapezoidal(func, from_a, to_b, n_intervals)>>
    /\ UNCHANGED <<func, from_a, to_b, n_intervals, fast_out>>
    /\ UNCHANGED <<commonVars, calcVars, survVars, divVars, importVars>>

\* The cell  trapezodial_fast(a, b, n)
CallTrapezodialFast ==
    /\ fast_out = None
    /\ fast_out' = <<trapezodial_fast(from_a, to_b, n_intervals)>>
    /\ UNCHANGED <<func, from_a, to_b, n_intervals, trap_out>>
    /\ UNCHANGED <<commonVars, calcVars, survVars, divVars, importVars>>

NextTrap == CallTrapezoidal \/ CallTrapezodialFast

SpecTrap == InitTrap /\ [][NextTrap]_vars

\* The composite trapezoidal rule: interior grid points from_a + i*h, i = 1 .. n-1.
RECURSIVE InteriorSum(_, _, _, _)
InteriorSum(f, fa, h, i) ==
    IF i = 0 THEN RInt(0)
    ELSE RAdd(InteriorSum(f, fa, h, i - 1), Apply(f, RAdd(RInt(fa), RMul(RInt(i), h))))

TrapezoidalRule(f, fa, tb, n) ==
    LET h == RDiv(RInt(tb - fa), RInt(n))
    IN  RMul(h, RAdd(RMul(RHalf, RAdd(Apply(f, RInt(fa)), Apply(f, RInt(tb)))),
                     InteriorSum(f, fa, h, n - 1)))

\* C1: for from_a < to_b and n_intervals >= 1, trapezoidal returns the composite
\* trapezoidal-rule value: weight one half on each endpoint, one on each interior
\* grid point.
C1_TrapezoidalIsTrapezoidalRule ==
    (trap_out # None /\ from_a < to_b)
        => trap_out[1] = TrapezoidalRule(func, from_a, to_b, n_intervals)

\* C2: trapezodial_fast(a, b, n) returns the same value as
\* trapezoidal(some_polynomial_function, a, b, n).
C2_FastSameAsTrapezoidal ==
    fast_out # None
        => fast_out[1] = trapezoidal(some_polynomial_function, from_a, to_b, n_intervals)

----------------------------------------------------------------------------
(* common_elements: a generator over two sequences.                        *)

MaxLen == 2
MaxVal == 2

\* Sequences of length 0 .. MaxLen over the values 0 .. MaxVal.
Lists == UNION {[1..n -> 0..MaxVal] : n \in 0..MaxLen}

Range(s) == {s[k] : k \in DOMAIN s}

\* for j in b: if i == j: yield i     (b from position k on)
RECURSIVE InnerLoop(_, _, _)
InnerLoop(i, bs, k) ==
    IF k > Len(bs) THEN <<>>
    ELSE (IF i = bs[k] THEN <<i>> ELSE <<>>) \o InnerLoop(i, bs, k + 1)

\* for i in a: ...                    (a from position k on)
RECURSIVE OuterLoop(_, _, _)
OuterLoop(as, bs, k) ==
    IF k > Len(as) THEN <<>>
    ELSE InnerLoop(as[k], bs, 1) \o OuterLoop(as, bs, k + 1)

\* A variant that compares the two lists position by position.
RECURSIVE ElementwiseLoop(_, _, _)
ElementwiseLoop(as, bs, k) ==
    IF k > Len(as) \/ k > Len(bs) THEN <<>>
    ELSE (IF as[k] = bs[k] THEN <<as[k]>> ELSE <<>>) \o ElementwiseLoop(as, bs, k + 1)

common_elements_elementwise(as, bs) == ElementwiseLoop(as, bs, 1)

\* The values common_elements(a, b) yields, in order.
common_elements(as, bs) == OuterLoop(as, bs, 1)

InitCommon ==
    /\ a \in Lists
    /\ b \in Lists
    /\ yielded = None
    /\ TrapIdle /\ CalcIdle /\ SurvIdle /\ DivIdle /\ ImportIdle

\* The cell  list(common_elements(list1, list2)) ; the result is kept as <<list>>.
ListCommonElements ==
    /\ yielded = None
    /\ yielded' = <<common_elements(a, b)>>
    /\ UNCHANGED <<a, b>>
    /\ UNCHANGED <<trapVars, calcVars, survVars, divVars, importVars>>

NextCommon == ListCommonElements

SpecCommon == InitCommon /\ [][NextCommon]_vars

\* C4: the set of values yielded by common_elements(a, b) equals
\* set(a) & set(b).
C4_YieldedIsIntersection ==
    yielded # None => Range(yielded[1]) = Range(a) \cap Range(b)

\* C4 witness: a run that yielded a common value while a and b each hold a value
\* the other lacks, and the common value sits at different positions.
C4_Witness ==
    /\ yielded # None
    /\ yielded[1] # <<>>
    /\ Range(a) \ Range(b) # {}
    /\ Range(b) \ Range(a) # {}
    /\ Len(a) = MaxLen /\ Len(b) = MaxLen
    /\ a[1] # b[1]

----------------------------------------------------------------------------
(* Laplace relaxation: py_update, num_update, calc.                        *)

MaxN     == 4
MaxNiter == 3

\* dx = 0.1 ; dy = 0.1 ; dx2 = dx*dx ; dy2 = dy*dy
dx  == Rat(1, 10)
dy  == Rat(1, 10)
dx2 == RMul(dx, dx)
dy2 == RMul(dy, dy)

\* A grid is a function on (0 .. nx-1) \X (0 .. ny-1); its shape is read off the domain.
Shape(g) == <<Cardinality({c[1] : c \in DOMAIN g}), Cardinality({c[2] : c \in DOMAIN g})>>

\* ((u[i+1, j] + u[i-1, j]) * dy2 + (u[i, j+1] + u[i, j-1]) * dx2) / (2*(dx2+dy2))
Stencil(g, i, j) ==
    RDiv(RAdd(RMul(RAdd(g[<<i + 1, j>>], g[<<i - 1, j>>]), dy2),
              RMul(RAdd(g[<<i, j + 1>>], g[<<i, j - 1>>]), dx2)),
         RMul(RInt(2), RAdd(dx2, dy2)))

\* The two nested loops of py_update from cell (i, j) on, updating u in place:
\* a later cell reads the new values of the cells before it.
RECURSIVE PyLoop(_, _, _)
PyLoop(g, i, j) ==
    LET nx == Shape(g)[1]
        ny == Shape(g)[2]
    IN  IF i >= nx - 1 \/ ny < 3 THEN g
        ELSE IF j >= ny - 1 THEN PyLoop(g, i + 1, 1)
        ELSE PyLoop([g EXCEPT ![<<i, j>>] = Stencil(g, i, j)], i, j + 1)

\* Python's negative indexing: index -1 is the last one.
Wrap(i, n) == IF i < 0 THEN i + n ELSE i

\* py_update with both loops started at 0 instead of 1.
RECURSIVE PyLoopFrom0(_, _, _)
PyLoopFrom0(g, i, j) ==
    LET nx == Shape(g)[1]
        ny == Shape(g)[2]
        new == RDiv(RAdd(RMul(RAdd(g[<<i + 1, j>>], g[<<Wrap(i - 1, nx), j>>]), dy2),
                         RMul(RAdd(g[<<i, j + 1>>], g[<<i, Wrap(j - 1, ny)>>]), dx2)),
                    RMul(RInt(2), RAdd(dx2, dy2)))
    IN  IF i >= nx - 1 \/ ny < 2 THEN g
        ELSE IF j >= ny - 1 THEN PyLoopFrom0(g, i + 1, 0)
        ELSE PyLoopFrom0([g EXCEPT ![<<i, j>>] = new], i, j + 1)

py_update_from0(g) == PyLoopFrom0(g, 0, 0)

py_update(g) == PyLoop(g, 1, 1)

\* u[1:-1,1:-1] = <expression over slices of u>: the right-hand side is evaluated
\* on the old u as a whole, then assigned.
num_update(g) ==
    LET nx == Shape(g)[1]
        ny == Shape(g)[2]
    IN  [c \in DOMAIN g |->
            IF c[1] \in 1..(nx - 2) /\ c[2] \in 1..(ny - 2)
            THEN Stencil(g, c[1], c[2])
            ELSE g[c]]

\* u = np.zeros([N, N]) ; u[0] = 1
InitialGrid(n) ==
    [c \in (0..(n - 1)) \X (0..(n - 1)) |-> IF c[1] = 0 THEN RInt(1) ELSE RInt(0)]

\* calc(N, Niter, func) has been entered: u is allocated, no iteration has run.
InitCalc ==
    /\ N \in 1..MaxN
    /\ Niter \in 0..MaxNiter
    /\ update_func \in {"py_update", "num_update"}
    /\ u = InitialGrid(N)
    /\ iter = 0
    /\ calc_pc = "loop"
    /\ TrapIdle /\ CommonIdle /\ SurvIdle /\ DivIdle /\ ImportIdle

\* One pass of  for i in range(Niter): func(u)  with func = py_update
CalcPyUpdate ==
    /\ calc_pc = "loop" /\ iter < Niter /\ update_func = "py_update"
    /\ u' = py_update(u)
    /\ iter' = iter + 1
    /\ UNCHANGED <<N, Niter, update_func, calc_pc>>
    /\ UNCHANGED <<trapVars, commonVars, survVars, divVars, importVars>>

\* One pass of the loop with func = num_update
CalcNumUpdate ==
    /\ calc_pc = "loop" /\ iter < Niter /\ update_func = "num_update"
    /\ u' = num_update(u)
    /\ iter' = iter + 1
    /\ UNCHANGED <<N, Niter, update_func, calc_pc>>
    /\ UNCHANGED <<trapVars, commonVars, survVars, divVars, importVars>>

\* return u
CalcReturn ==
    /\ calc_pc = "loop" /\ iter = Niter
    /\ calc_pc' = "returned"
    /\ UNCHANGED <<N, Niter, update_func, u, iter>>
    /\ UNCHANGED <<trapVars, commonVars, survVars, divVars, importVars>>

NextCalc == CalcPyUpdate \/ CalcNumUpdate \/ CalcReturn

SpecCalc == InitCalc /\ [][NextCalc]_vars

\* calc(n, k, func=num_update): k passes of num_update from the initial grid.
RECURSIVE C3_CalcNum(_, _)
C3_CalcNum(n, k) == IF k = 0 THEN InitialGrid(n) ELSE num_update(C3_CalcNum(n, k - 1))

\* C3: applying num_update to a grid gives the same grid as applying py_update
\* to it, and therefore the grid calc(N, Niter, func=py_update) returns is the
\* grid calc(N, Niter, func=num_update) returns (for Niter = 1: py_update and
\* num_update agree on the initial grid).
C3_NumUpdateSameAsPyUpdate ==
    (calc_pc = "returned" /\ update_func = "py_update") => u = C3_CalcNum(N, Niter)

IsBoundary(g, c) ==
    \/ c[1] = 0 \/ c[1] = Shape(g)[1] - 1
    \/ c[2] = 0 \/ c[2] = Shape(g)[2] - 1

\* C9: calc keeps the boundary fixed: while calc runs and when it returns, every
\* cell of row 0 is 1 and every other boundary cell is 0 (py_update and
\* num_update never write to a first or last row or column).
C9_BoundaryFixed ==
    \A c \in DOMAIN u :
        IsBoundary(u, c) => u[c] = (IF c[1] = 0 THEN RInt(1) ELSE RInt(0))

\* C9 witness: calc has returned a grid with interior cells that the updates
\* have changed.
C9_Witness ==
    /\ calc_pc = "returned"
    /\ N >= 4 /\ Niter >= 2
    /\ u[<<1, 1>>] # RInt(0)
    /\ u[<<2, 2>>] # RInt(0)

----------------------------------------------------------------------------
(* Survival data restructured for the Poisson trick.                       *)

MaxPatients == 2
MaxTime     == 7

\* interval_length = 3
interval_length == 3

\* The offset 0.01 of last_period is one hundredth: times are scaled by 100 so
\* that the subtraction and the floor are exact.
Hundredths == 100

n_patients == Cardinality(DOMAIN time)
patients   == DOMAIN time

SetMax(S) == CHOOSE m \in S : \A k \in S : k <= m

\* np.arange(start, stop, step) for integers, step > 0, as a 0-indexed array.
Arange(start, stop, step) ==
    LET size == IF stop <= start THEN 0 ELSE (stop - start + step - 1) \div step
    IN  [k \in 0..(size - 1) |-> start + k * step]

Size(arr) == Cardinality(DOMAIN arr)

\* n_intervals = interval_bounds.size - 1
NIntervals(bounds) == Size(bounds) - 1

\* np.arange(0, df.time.max() + interval_length + 1, interval_length)
IntervalBounds(tm) ==
    Arange(0, SetMax({tm[p] : p \in DOMAIN tm}) + interval_length + 1, interval_length)

\* np.floor((df.time - 0.01) / interval_length).astype(int)
LastPeriod(tm) ==
    [p \in DOMAIN tm |-> (Hundredths * tm[p] - 1) \div (Hundredths * interval_length)]

\* A variant that marks the last period of every patient: death[patients, last_period] = 1
DeathGridAlwaysOne(tm, ev, lp, n) ==
    [c \in (DOMAIN tm) \X (0..(n - 1)) |-> IF c[2] = Wrap(lp[c[1]], n) THEN 1 ELSE 0]

\* death = np.zeros((n_patients, n_intervals)) ; death[patients, last_period] = df.event
DeathGrid(tm, ev, lp, n) ==
    [c \in (DOMAIN tm) \X (0..(n - 1)) |-> IF c[2] = Wrap(lp[c[1]], n) THEN ev[c[1]] ELSE 0]

\* A variant that stores the time itself: exposure[patients, last_period] = df.time
ExposureGridNoSubtract(tm, bounds, lp) ==
    LET n == NIntervals(bounds)
    IN  [c \in (DOMAIN tm) \X (0..(n - 1)) |->
            IF c[2] = Wrap(lp[c[1]], n) THEN tm[c[1]]
            ELSE IF tm[c[1]] >= bounds[c[2]] THEN interval_length ELSE 0]

\* exposure = np.greater_equal.outer(df.time, interval_bounds[:-1]) * interval_length
\* exposure[patients, last_period] = df.time - interval_bounds[last_period]
ExposureGrid(tm, bounds, lp) ==
    LET n    == NIntervals(bounds)
        full == [c \in (DOMAIN tm) \X (0..(n - 1)) |->
                    IF tm[c[1]] >= bounds[c[2]] THEN interval_length ELSE 0]
    IN  [c \in DOMAIN full |->
            IF c[2] = Wrap(lp[c[1]], n)
            THEN tm[c[1]] - bounds[Wrap(lp[c[1]], Size(bounds))]
            ELSE full[c]]

\* The data frame is loaded: one time (whole months, at least 1) and one event
\* flag (0 or 1 after df.event.astype(int)) per patient, indexed 0 .. n-1.
InitSurv ==
    /\ \E n \in 1..MaxPatients :
          /\ time \in [0..(n - 1) -> 1..MaxTime]
          /\ event \in [0..(n - 1) -> {0, 1}]
    /\ interval_bounds = None
    /\ last_period = None
    /\ death = None
    /\ exposure = None
    /\ surv_pc = "loaded"
    /\ TrapIdle /\ CommonIdle /\ CalcIdle /\ DivIdle /\ ImportIdle

\* The cell that sets interval_length, interval_bounds, n_intervals, intervals
CellIntervals ==
    /\ surv_pc = "loaded"
    /\ interval_bounds' = IntervalBounds(time)
    /\ surv_pc' = "intervals"
    /\ UNCHANGED <<time, event, last_period, death, exposure>>
    /\ UNCHANGED <<trapVars, commonVars, calcVars, divVars, importVars>>

\* The cell that sets last_period, patients, death
CellDeath ==
    /\ surv_pc = "intervals"
    /\ last_period' = LastPeriod(time)
    /\ death' = DeathGrid(time, event, LastPeriod(time), NIntervals(interval_bounds))
    /\ surv_pc' = "death"
    /\ UNCHANGED <<time, event, interval_bounds, exposure>>
    /\ UNCHANGED <<trapVars, commonVars, calcVars, divVars, importVars>>

\* The cell that sets exposure
CellExposure ==
    /\ surv_pc = "death"
    /\ exposure' = ExposureGrid(time, interval_bounds, last_period)
    /\ surv_pc' = "exposure"
    /\ UNCHANGED <<time, event, interval_bounds, last_period, death>>
    /\ UNCHANGED <<trapVars, commonVars, calcVars, divVars, importVars>>

NextSurv == CellIntervals \/ CellDeath \/ CellExposure

SpecSurv == InitSurv /\ [][NextSurv]_vars

Min(m, n) == IF m < n THEN m ELSE n
Max(m, n) == IF m > n THEN m ELSE n

\* The length of the overlap of [0, t] with [lo, hi].
Overlap(t, lo, hi) == Max(0, Min(t, hi) - lo)

RECURSIVE RowSum(_, _, _)
RowSum(g, p, n) == IF n = 0 THEN 0 ELSE RowSum(g, p, n - 1) + g[<<p, n - 1>>]

\* C5: exposure[p, j] is the length of the overlap of [0, time_p] with
\* [interval_bounds[j], interval_bounds[j+1]] (interval_length before time_p,
\* 0 for intervals that start at or after time_p), and row p sums to time_p.
C5_ExposureIsOverlap ==
    surv_pc = "exposure" =>
        \A p \in patients :
            /\ \A j \in 0..(NIntervals(interval_bounds) - 1) :
                  exposure[<<p, j>>]
                      = Overlap(time[p], interval_bounds[j], interval_bounds[j + 1])
            /\ RowSum(exposure, p, NIntervals(interval_bounds)) = time[p]

\* C6: row p of death holds a single 1, at column last_period_p, when
\* event_p = 1, and only zeros when event_p = 0; every cell is 0 or 1.
C6_DeathGrid ==
    surv_pc \in {"death", "exposure"} =>
        \A p \in patients :
            LET ones == {j \in 0..(NIntervals(interval_bounds) - 1) : death[<<p, j>>] = 1}
            IN  /\ event[p] = 1 => ones = {last_period[p]}
                /\ event[p] = 0 => ones = {}
                /\ \A j \in 0..(NIntervals(interval_bounds) - 1) : death[<<p, j>>] \in {0, 1}

\* C6 witness: the death cell has run for a patient who died and a patient who
\* was censored, in different intervals, neither of them the first.
C6_Witness ==
    /\ surv_pc = "death"
    /\ \E p, q \in patients :
          /\ event[p] = 1 /\ event[q] = 0
          /\ last_period[p] # last_period[q]
          /\ last_period[p] > 0 /\ last_period[q] > 0
          /\ death[<<p, last_period[p]>>] = 1

\* C7: last_period of a patient is the index j of the partition with
\* interval_bounds[j] <= time < interval_bounds[j+1].
C7_LastPeriodIsPartitionIndex ==
    surv_pc \in {"death", "exposure"} =>
        \A p \in patients :
            /\ interval_bounds[last_period[p]] <= time[p]
            /\ time[p] < interval_bounds[last_period[p] + 1]

\* C8: every entry of the exposure grid is between 0 and interval_length.
C8_ExposureInRange ==
    surv_pc = "exposure" =>
        \A c \in DOMAIN exposure : 0 <= exposure[c] /\ exposure[c] <= interval_length

\* C8 witness: an exposure grid holding a full interval, a partly exposed
\* interval and an interval without exposure.
C8_Witness ==
    /\ surv_pc = "exposure"
    /\ \E c1, c2, c3 \in DOMAIN exposure :
          /\ exposure[c1] = interval_length
          /\ exposure[c2] > 0 /\ exposure[c2] < interval_length
          /\ exposure[c3] = 0
          /\ c1[2] # last_period[c1[1]]

----------------------------------------------------------------------------
(* The debugging example: div.                                             *)

MaxOperand == 4

\* A variant that guards the division: return 0 when y == 0.
div_guarded(p, q) ==
    IF q = 0
    THEN [kind |-> "return", value |-> RInt(0), exc |-> ""]
    ELSE [kind |-> "return", value |-> RDiv(RInt(p), RInt(q)), exc |-> ""]

\* def div(x, y): return x/y      (x/y with y == 0 raises ZeroDivisionError)
div(p, q) ==
    IF q = 0
    THEN [kind |-> "raise", value |-> None, exc |-> "ZeroDivisionError"]
    ELSE [kind |-> "return", value |-> RDiv(RInt(p), RInt(q)), exc |-> ""]

InitDiv ==
    /\ x \in (-MaxOperand)..MaxOperand
    /\ y \in (-MaxOperand)..MaxOperand
    /\ div_out = [status |-> "pending", value |-> None, ename |-> ""]
    /\ TrapIdle /\ CommonIdle /\ CalcIdle /\ SurvIdle /\ ImportIdle

\* The cell  div(x, y) : no try/except around the call, so what div raises ends
\* the cell in error, and what it returns is the cell's value.
CellDiv ==
    /\ div_out.status = "pending"
    /\ LET r == div(x, y)
       IN  div_out' = IF r.kind = "raise"
                      THEN [status |-> "error", value |-> None, ename |-> r.exc]
                      ELSE [status |-> "ok", value |-> r.value, ename |-> ""]
    /\ UNCHANGED <<x, y>>
    /\ UNCHANGED <<trapVars, commonVars, calcVars, survVars, importVars>>

NextDiv == CellDiv

SpecDiv == InitDiv /\ [][NextDiv]_vars

\* C10: div(x, y) returns x/y when y # 0; div(x, 0) raises ZeroDivisionError,
\* which nothing catches, so the cell ends in error and without a value.
C10_DivRaisesOnZero ==
    div_out.status # "pending" =>
        /\ y # 0 => /\ div_out.status = "ok"
                    /\ RMul(div_out.value, RInt(y)) = RInt(x)
        /\ y = 0 => /\ div_out.status = "error"
                    /\ div_out.ename = "ZeroDivisionError"
                    /\ div_out.value = None

\* C10 witness: the cell div(1, 0) has ended in error.
C10_Witness ==
    /\ x = 1 /\ y = 0
    /\ div_out.status = "error"

----------------------------------------------------------------------------
(* The Ebola import loop.                                                  *)

\* The number of files in the database, over all countries.
MaxFiles == 2

\* The keys of filenames: the country directories (guinea_data, liberia_data,
\* sl_data) cut at the underscore.
Countries == <<"guinea", "liberia", "sl">>

\* The column names a file may carry, in file order. Capitalisation is
\* inconsistent across the files; "Other" stands for the columns not selected.
AllNames == <<"Date", "date", "Description", "variable", "Totals", "National", "Other">>

\* str.lower() on a column name
Lower(nm) ==
    CASE nm = "Date"        -> "date"
      [] nm = "Description" -> "description"
      [] nm = "Totals"      -> "totals"
      [] nm = "National"    -> "national"
      [] nm = "Other"       -> "other"
      [] OTHER              -> nm

\* The headers pd.read_csv can return: one or more distinct names.
Headers ==
    {SelectSeq(AllNames, LAMBDA nm : nm \in S) : S \in (SUBSET Range(AllNames)) \ {{}}}

\* data.columns = data.columns.str.lower() : every column keeps its data
\* (identified by its original name) under the lower-cased label.
LowerColumns(cols) ==
    [k \in DOMAIN cols |-> [label |-> Lower(cols[k]), orig |-> cols[k]]]

Labels(df) == {df[k].label : k \in DOMAIN df}

\* A variant with the first test inverted: 'variable' wins over 'description'.
KeepColumnsPreferVariable(df) ==
    <<"date",
      IF "variable" \in Labels(df) THEN "variable" ELSE "description",
      IF "totals" \in Labels(df) THEN "totals" ELSE "national">>

\* keep_columns = ['date'] ; append 'description' or else 'variable' ;
\* append 'totals' or else 'national'
KeepColumns(df) ==
    <<"date",
      IF "description" \in Labels(df) THEN "description" ELSE "variable",
      IF "totals" \in Labels(df) THEN "totals" ELSE "national">>

\* The columns of df with one of the labels, label by label (a label that
\* several columns carry selects them all).
RECURSIVE Take(_, _)
Take(df, labels) ==
    IF labels = <<>> THEN <<>>
    ELSE SelectSeq(df, LAMBDA col : col.label = Head(labels)) \o Take(df, Tail(labels))

\* A variant that skips the labels the frame lacks instead of raising.
SelectColumnsSkipMissing(df, labels) ==
    [ok |-> TRUE, cols |-> Take(df, labels)]

\* data[keep_columns] : KeyError when a label is not a column of data
SelectColumns(df, labels) ==
    IF \E k \in DOMAIN labels : labels[k] \notin Labels(df)
    THEN [ok |-> FALSE, cols |-> <<>>]
    ELSE [ok |-> TRUE, cols |-> Take(df, labels)]

\* keep_data.columns = names : ValueError when the lengths differ
SetColumns(df, names) ==
    IF Len(df) # Len(names)
    THEN [ok |-> FALSE, cols |-> <<>>]
    ELSE [ok |-> TRUE,
          cols |-> [k \in DOMAIN df |-> [label |-> names[k], orig |-> df[k].orig]]]

NoFrame == [columns |-> <<>>, source |-> <<>>, country |-> ""]

Raise(step, exc) == [kind |-> "raise", step |-> step, exc |-> exc, frame |-> NoFrame]

\* The body of the loop for one file with header cols: the frame it appends, or
\* the statement that raises. rows_ok tells whether the row operations
\* (str.lower, str.contains, boolean indexing, to_datetime, astype(int))
\* succeed on the file's values.
ProcessFile(cols, country, rows_ok) ==
    LET lowered  == LowerColumns(cols)
        selected == SelectColumns(lowered, KeepColumns(lowered))
        renamed  == SetColumns(selected.cols, <<"date", "variable", "totals">>)
    IN  IF ~selected.ok THEN Raise("select", "KeyError")
        ELSE IF ~renamed.ok THEN Raise("rename", "ValueError")
        ELSE IF ~rows_ok THEN Raise("convert", "ValueError")
        ELSE [kind |-> "append", step |-> "", exc |-> "",
              frame |-> [columns |-> [k \in DOMAIN renamed.cols |-> renamed.cols[k].label]
                                         \o <<"country">>,
                         source  |-> [k \in DOMAIN renamed.cols |-> renamed.cols[k].orig],
                         country |-> country]]

\* The order in which the nested loops visit the files: the country of each.
RECURSIVE Flat(_, _)
Flat(fn, c) ==
    IF c > Len(Countries) THEN <<>>
    ELSE [k \in 1..fn[c] |-> Countries[c]] \o Flat(fn, c + 1)

\* datasets = [] ; the loops have not read a file yet.
InitImport ==
    /\ filenames \in [1..Len(Countries) -> 0..MaxFiles]
    /\ Len(Flat(filenames, 1)) <= MaxFiles
    /\ n_read = 0
    /\ data = <<>>
    /\ datasets = <<>>
    /\ import_pc = "loop"
    /\ import_err = [step |-> "", exc |-> ""]
    /\ TrapIdle /\ CommonIdle /\ CalcIdle /\ SurvIdle /\ DivIdle

\* One pass of the inner loop: read the next file and process it.
ImportFile ==
    /\ import_pc = "loop"
    /\ n_read < Len(Flat(filenames, 1))
    /\ \E cols \in Headers, rows_ok \in BOOLEAN :
          LET r == ProcessFile(cols, Flat(filenames, 1)[n_read + 1], rows_ok)
          IN  /\ data' = cols
              /\ n_read' = n_read + 1
              /\ IF r.kind = "raise"
                 THEN /\ import_pc' = "error"
                      /\ import_err' = [step |-> r.step, exc |-> r.exc]
                      /\ datasets' = datasets
                 ELSE /\ datasets' = Append(datasets, r.frame)
                      /\ UNCHANGED <<import_pc, import_err>>
    /\ UNCHANGED filenames
    /\ UNCHANGED <<trapVars, commonVars, calcVars, survVars, divVars>>

\* Both loops are exhausted.
ImportDone ==
    /\ import_pc = "loop"
    /\ n_read = Len(Flat(filenames, 1))
    /\ import_pc' = "done"
    /\ UNCHANGED <<filenames, n_read, data, datasets, import_err>>
    /\ UNCHANGED <<trapVars, commonVars, calcVars, survVars, divVars>>

NextImport == ImportFile \/ ImportDone

SpecImport == InitImport /\ [][NextImport]_vars

HasLabel(cols, label) == \E k \in DOMAIN cols : Lower(cols[k]) = label

\* The file has 'date', one of 'description'/'variable' and one of
\* 'totals'/'national' among its lower-cased columns.
HasRequired(cols) ==
    /\ HasLabel(cols, "date")
    /\ HasLabel(cols, "description") \/ HasLabel(cols, "variable")
    /\ HasLabel(cols, "totals") \/ HasLabel(cols, "national")

\* C11: every table appended to datasets has the same structure: when a pass of
\* the loop appends the frame of a file, the file has the required columns, the
\* frame's columns are exactly date, variable, totals (plus country), its
\* variable column is the file's 'description' when the file has one and its
\* 'variable' otherwise, its totals column is the file's 'totals' when the file
\* has one and its 'national' otherwise; the frames appended before stay as
\* they are.
C11_AppendedStructure ==
    [][Len(datasets') > Len(datasets) =>
          LET fr == datasets'[Len(datasets')]
          IN  /\ datasets' = Append(datasets, fr)
              /\ HasRequired(data')
              /\ fr.columns = <<"date", "variable", "totals", "country">>
              /\ Len(fr.source) = 3
              /\ Lower(fr.source[1]) = "date"
              /\ Lower(fr.source[2])
                    = (IF HasLabel(data', "description") THEN "description" ELSE "variable")
              /\ Lower(fr.source[3])
                    = (IF HasLabel(data', "totals") THEN "totals" ELSE "national")]_vars

\* C11 witness: a second frame has been appended, from a file that has both
\* 'description' and 'variable' and both 'totals' and 'national'.
C11_Witness ==
    /\ Len(datasets) = 2
    /\ n_read = 2
    /\ HasLabel(data, "description") /\ HasLabel(data, "variable")
    /\ HasLabel(data, "totals") /\ HasLabel(data, "national")
    /\ datasets[2].source = <<"Date", "Description", "Totals">>
    /\ datasets[1].source # datasets[2].source

\* C12: when the file read in a pass lacks 'date', or both 'description' and
\* 'variable', or both 'totals' and 'national', the column selection raises,
\* nothing catches it, nothing is appended and datasets keeps the frames of the
\* files before; once the loop has stopped in error nothing runs any more.
C12_MissingColumnStops ==
    [][/\ (n_read' # n_read /\ ~HasRequired(data')) =>
             /\ import_pc' = "error"
             /\ import_err' = [step |-> "select", exc |-> "KeyError"]
             /\ datasets' = datasets
       /\ import_pc = "error" => UNCHANGED importVars]_vars

\* C12 witness: the loop has stopped in error at a file without 'description'
\* and 'variable', after it appended the frame of an earlier file.
C12_Witness ==
    /\ import_pc = "error"
    /\ import_err.step = "select"
    /\ HasLabel(data, "date") /\ HasLabel(data, "totals")
    /\ ~HasLabel(data, "description") /\ ~HasLabel(data, "variable")
    /\ Len(datasets) = 1
    /\ n_read = 2

====
